---- MODULE Spec2Model ----
(***************************************************************************)
(* Quadric surface analyzer: analyzeSurface (services/mathService) and its *)
(* callers.  Numbers are exact rationals <<numerator, denominator>> in     *)
(* lowest terms with a positive denominator, so that every arithmetic      *)
(* step of the source is computed, not assumed.                            *)
(***************************************************************************)
EXTENDS Integers, Sequences, FiniteSets, TLC

VARIABLES coeffs, pc, an,    \* analyzeSurface: its argument, its position, its result
          arg, fs,             \* formatSmart: its argument val and its frame
          app,                 \* App: its timers and its state next to coeffs
          ni                   \* NumberInput: its value prop, its text and its last event

vars == <<coeffs, pc, an, arg, fs, app, ni>>

analysisVars == <<coeffs, pc, an>>

formatVars == <<arg, fs>>

\* the variables analyzeSurface does not touch, and those formatSmart does not
besideAnalysis == <<arg, fs, app, ni>>

besideFormat == <<coeffs, pc, an, app, ni>>

\* the value of the variables of a part of the program that is not running
Idle == [pc |-> "idle"]

(***************************************************************************)
(* Bounds of the model.                                                    *)
(***************************************************************************)
MaxLam == 1
MaxLin == 1
MaxConst == 1
MaxPt == 1

(***************************************************************************)
(* Number arithmetic.                                                      *)
(***************************************************************************)
Abs(n) == IF n < 0 THEN -n ELSE n

RECURSIVE Hcf(_, _)
Hcf(a, b) == IF b = 0 THEN a ELSE Hcf(b, a % b)

Q(n, d) ==
  LET s == IF d < 0 THEN -1 ELSE 1
      g == Hcf(Abs(n), Abs(d))
  IN  <<(s * n) \div g, (s * d) \div g>>

Rat(n) == <<n, 1>>

Zero == Rat(0)

Neg(p) == <<-p[1], p[2]>>

\* the numbers that are not finite have the denominator 0
NotANumber == <<0, 0>>

PlusInfinity == <<1, 0>>

MinusInfinity == <<-1, 0>>

IsFinite(p) == p[2] # 0

Sgn(n) == IF n < 0 THEN -1 ELSE IF n > 0 THEN 1 ELSE 0

Add(p, q) ==
  IF IsFinite(p) /\ IsFinite(q)
  THEN LET g == Hcf(p[2], q[2])
       IN  Q(p[1] * (q[2] \div g) + q[1] * (p[2] \div g), (p[2] \div g) * q[2])
  ELSE IF ~IsFinite(p) /\ ~IsFinite(q)
  THEN (IF p = q THEN p ELSE NotANumber)
  ELSE IF IsFinite(q) THEN p ELSE q

Sub(p, q) == Add(p, Neg(q))

Mul(p, q) ==
  IF IsFinite(p) /\ IsFinite(q)
  THEN LET g1 == Hcf(Abs(p[1]), q[2])
           g2 == Hcf(Abs(q[1]), p[2])
       IN  <<(p[1] \div g1) * (q[1] \div g2), (p[2] \div g2) * (q[2] \div g1)>>
  ELSE <<Sgn(p[1]) * Sgn(q[1]), 0>>

Div(p, q) == Mul(p, IF q[1] < 0 THEN <<-q[2], -q[1]>> ELSE <<q[2], q[1]>>)

MathAbs(p) == <<Abs(p[1]), p[2]>>

\* a/b < c/d for b, d > 0, by comparing the continued fractions (no products)
RECURSIVE FracLt(_, _, _, _)
FracLt(a, b, c, d) ==
  LET qa == a \div b
      qc == c \div d
      ra == a % b
      rc == c % d
  IN  IF qa # qc THEN qa < qc
      ELSE IF rc = 0 THEN FALSE
      ELSE IF ra = 0 THEN TRUE
      ELSE FracLt(d, rc, b, ra)

\* p < q; false when one of them is NaN
Lt(p, q) ==
  IF IsFinite(p) /\ IsFinite(q)
  THEN FracLt(p[1], p[2], q[1], q[2])
  ELSE /\ p # NotANumber /\ q # NotANumber
       /\ (IF IsFinite(p) THEN 0 ELSE p[1]) < (IF IsFinite(q) THEN 0 ELSE q[1])

Gt(p, q) == Lt(q, p)

\* const epsilon = 1e-5
epsilon == <<1, 100000>>

(***************************************************************************)
(* Vectors and 3x3 matrices (math.transpose, math.multiply, math.det).     *)
(***************************************************************************)
Idx == 1 .. 3

Dot(u, v) == Add(Add(Mul(u[1], v[1]), Mul(u[2], v[2])), Mul(u[3], v[3]))

transpose(m) == [i \in Idx |-> [j \in Idx |-> m[j][i]]]

multiply(m, v) == [i \in Idx |-> Dot(m[i], v)]

MatMul(m, n) ==
  LET nt == transpose(n)
  IN  [i \in Idx |-> [j \in Idx |-> Dot(m[i], nt[j])]]

det(m) ==
  Add(Sub(Mul(m[1][1], Sub(Mul(m[2][2], m[3][3]), Mul(m[2][3], m[3][2]))),
          Mul(m[1][2], Sub(Mul(m[2][1], m[3][3]), Mul(m[2][3], m[3][1])))),
      Mul(m[1][3], Sub(Mul(m[2][1], m[3][2]), Mul(m[2][2], m[3][1]))))

Diag(l) == [i \in Idx |-> [j \in Idx |-> IF i = j THEN l[i] ELSE Zero]]

Identity == Diag(<<Rat(1), Rat(1), Rat(1)>>)

(***************************************************************************)
(* analyzeSurface, step 1: the matrix A and the vector J.                  *)
(***************************************************************************)
Half(p) == Div(p, Rat(2))

\* the cross-coefficients entered whole, as the superseded copy of
\* analyzeSurface does
MatrixAWhole(k) ==
  << <<k.a11, k.a12, k.a13>>,
     <<k.a12, k.a22, k.a23>>,
     <<k.a13, k.a23, k.a33>> >>

MatrixA(k) ==
  << <<k.a11, Half(k.a12), Half(k.a13)>>,
     <<Half(k.a12), k.a22, Half(k.a23)>>,
     <<Half(k.a13), Half(k.a23), k.a33>> >>

VectorJ(k) == <<k.b1, k.b2, k.b3>>

(***************************************************************************)
(* math.eigs: the eigensolver is a library.  It returns the three          *)
(* eigenvalues in an order of its own and a matrix whose columns are unit  *)
(* eigenvectors, each with a sign of its own: the columns of a base frame  *)
(* that diagonalises A, in any order and with any signs, are an answer.    *)
(***************************************************************************)
Rot345 ==
  << <<Q(3, 5), Q(-4, 5), Zero>>,
     <<Q(4, 5), Q(3, 5), Zero>>,
     <<Zero, Zero, Rat(1)>> >>

BaseFrames == {Identity, Rot345}

Perms == {p \in [Idx -> Idx] : \A i, j \in Idx : p[i] = p[j] => i = j}

Signs == [Idx -> {-1, 1}]

Columns(v, p, s) == [i \in Idx |-> [j \in Idx |-> Mul(Rat(s[j]), v[i][p[j]])]]

IsDiagonal(m) == \A i, j \in Idx : i # j => m[i][j] = Zero

Conj(v, a) == MatMul(transpose(v), MatMul(a, v))

\* the answers whose eigenvectors are the columns of v, in the order p, with
\* the signs s: v must diagonalise a, and the eigenvalues are the diagonal
Answers(v, a) ==
  LET d == Conj(v, a)
  IN  IF IsDiagonal(d)
      THEN {[values |-> [i \in Idx |-> d[p[i]][p[i]]],
             vectors |-> Columns(v, p, s)] : p \in Perms, s \in Signs}
      ELSE {}

eigs(a) == UNION {Answers(v, a) : v \in BaseFrames}

(***************************************************************************)
(* analyzeSurface, step 2: sort the eigenpairs, build M, fix orientation.  *)
(***************************************************************************)
EigPairs(ans) ==
  [idx \in Idx |->
     [val |-> ans.values[idx],
      vec |-> <<ans.vectors[1][idx], ans.vectors[2][idx], ans.vectors[3][idx]>>]]

\* Array.prototype.sort((a, b) => b.val - a.val): stable, descending
RECURSIVE InsertPair(_, _)
InsertPair(sorted, p) ==
  IF sorted = <<>> THEN <<p>>
  ELSE IF Lt(Head(sorted).val, p.val) THEN <<p>> \o sorted
  ELSE <<Head(sorted)>> \o InsertPair(Tail(sorted), p)

\* the sort left out
SortPairsNone(pairs) == pairs

SortPairs(pairs) ==
  InsertPair(InsertPair(InsertPair(<<>>, pairs[1]), pairs[2]), pairs[3])

\* the eigenvectors laid out as rows
AssembleRows(ps) == [i \in Idx |-> [j \in Idx |-> ps[i].vec[j]]]

AssembleM(ps) == [i \in Idx |-> [j \in Idx |-> ps[j].vec[i]]]

FlipLast(m) == [i \in Idx |-> [j \in Idx |-> IF j = 3 THEN Neg(m[i][j]) ELSE m[i][j]]]

\* the determinant never looked at
OrientNever(m) == m

Orient(m) == IF Lt(det(m), Zero) THEN FlipLast(m) ELSE m

(***************************************************************************)
(* analyzeSurface, step 3: completing the square, axis by axis.            *)
(***************************************************************************)
LoopInit(k) == [S |-> <<Zero, Zero, Zero>>, c_prime |-> k.c, linearVars |-> <<>>]

\* the shifts of the superseded copy of analyzeSurface: -b/lambda,
\* c' -= b^2/lambda and -c'/(2b)
LoopStepWhole(st, i, eigenvalues, J_prime) ==
  LET lambda == eigenvalues[i]
      bi == J_prime[i]
  IN  IF Gt(MathAbs(lambda), epsilon)
      THEN [st EXCEPT !.S[i] = Div(Neg(bi), lambda),
                      !.c_prime = Sub(@, Div(Mul(bi, bi), lambda))]
      ELSE IF Gt(MathAbs(bi), epsilon)
      THEN [st EXCEPT !.S[i] = Div(Neg(st.c_prime), Mul(Rat(2), bi)),
                      !.c_prime = Zero,
                      !.linearVars = Append(@, i)]
      ELSE [st EXCEPT !.S[i] = Zero]

\* the shift with the sign lost
LoopStepSign(st, i, eigenvalues, J_prime) ==
  LET lambda == eigenvalues[i]
      ji == J_prime[i]
  IN  IF Gt(MathAbs(lambda), epsilon)
      THEN [st EXCEPT !.S[i] = Div(ji, Mul(Rat(2), lambda)),
                      !.c_prime = Sub(@, Div(Mul(ji, ji), Mul(Rat(4), lambda)))]
      ELSE IF Gt(MathAbs(ji), epsilon)
      THEN [st EXCEPT !.S[i] = Div(Neg(st.c_prime), ji),
                      !.c_prime = Zero,
                      !.linearVars = Append(@, i)]
      ELSE [st EXCEPT !.S[i] = Zero]

LoopStep(st, i, eigenvalues, J_prime) ==
  LET lambda == eigenvalues[i]
      ji == J_prime[i]
  IN  IF Gt(MathAbs(lambda), epsilon)
      THEN [st EXCEPT !.S[i] = Div(Neg(ji), Mul(Rat(2), lambda)),
                      !.c_prime = Sub(@, Div(Mul(ji, ji), Mul(Rat(4), lambda)))]
      ELSE IF Gt(MathAbs(ji), epsilon)
      THEN [st EXCEPT !.S[i] = Div(Neg(st.c_prime), ji),
                      !.c_prime = Zero,
                      !.linearVars = Append(@, i)]
      ELSE [st EXCEPT !.S[i] = Zero]

Loop(k, eigenvalues, J_prime) ==
  LoopStep(LoopStep(LoopStep(LoopInit(k), 1, eigenvalues, J_prime),
                    2, eigenvalues, J_prime),
           3, eigenvalues, J_prime)

(***************************************************************************)
(* analyzeSurface, step 4: the terms of the standard form and the type.    *)
(***************************************************************************)
QuadTerms(eigenvalues) ==
  SelectSeq([i \in Idx |-> [kind |-> "quad", axis |-> i, coef |-> eigenvalues[i]]],
            LAMBDA t : Gt(MathAbs(t.coef), epsilon))

LinTerms(linearVars, J_prime) ==
  [n \in 1 .. Len(linearVars) |->
     [kind |-> "lin", axis |-> linearVars[n], coef |-> J_prime[linearVars[n]]]]

ConstTerms(c_prime) ==
  IF Gt(MathAbs(c_prime), epsilon)
  THEN << [kind |-> "const", axis |-> 0, coef |-> c_prime] >>
  ELSE <<>>

Terms(eigenvalues, linearVars, J_prime, c_prime) ==
  QuadTerms(eigenvalues) \o LinTerms(linearVars, J_prime) \o ConstTerms(c_prime)

(***************************************************************************)
(* The text of the standard form.  toFixed(2) rounds the exact value to    *)
(* the nearest hundredth, the larger one on a tie.                         *)
(***************************************************************************)
ToFixed2(val) ==
  IF val = NotANumber THEN "NaN"
  ELSE IF val = PlusInfinity THEN "Infinity"
  ELSE LET n == (200 * val[1] + val[2]) \div (2 * val[2])
       IN  ToString(n \div 100) \o "." \o ToString((n % 100) \div 10)
             \o ToString(n % 10)

AxisVars == <<"x'", "y'", "z'">>

\* a '+' before every non-negative term, the first one included
TermSignAlways(coef, length) == IF Lt(coef, Zero) THEN "-" ELSE "+"

\* the sign of a term pushed when `length` terms are already there
TermSign(coef, length) ==
  IF Lt(coef, Zero) THEN "-" ELSE IF length > 0 THEN "+" ELSE ""

TermText(t, length) ==
  LET sign == TermSign(t.coef, length)
      val == MathAbs(t.coef)
  IN  CASE t.kind = "quad" ->
             LET valStr == IF Lt(MathAbs(Sub(val, Rat(1))), <<1, 10000>>)
                           THEN ""
                           ELSE ToFixed2(val)
             IN  sign \o " " \o valStr \o AxisVars[t.axis] \o "^2"
        [] t.kind = "lin" -> sign \o " " \o ToFixed2(val) \o AxisVars[t.axis]
        [] t.kind = "const" -> sign \o " " \o ToFixed2(val)

RECURSIVE Join(_, _)
Join(strings, separator) ==
  IF Len(strings) = 0 THEN ""
  ELSE IF Len(strings) = 1 THEN strings[1]
  ELSE strings[1] \o separator \o Join(Tail(strings), separator)

RECURSIVE Trim(_)
Trim(str) ==
  IF Len(str) = 0 THEN str
  ELSE IF Head(str) = " " THEN Trim(Tail(str))
  ELSE IF SubSeq(str, Len(str), Len(str)) = " " THEN Trim(SubSeq(str, 1, Len(str) - 1))
  ELSE str

StandardForm(terms) ==
  IF Len(terms) = 0
  THEN "0 = 0"
  ELSE Trim(Join([n \in 1 .. Len(terms) |-> TermText(terms[n], n - 1)], " ")) \o " = 0"

Rank(eigenvalues) == Cardinality({i \in Idx : Gt(MathAbs(eigenvalues[i]), epsilon)})

SigPos(eigenvalues) == Cardinality({i \in Idx : Gt(eigenvalues[i], epsilon)})

SigNeg(eigenvalues) == Cardinality({i \in Idx : Lt(eigenvalues[i], Neg(epsilon))})

\* the signs compared with c' instead of -c'
SameSignAsConstant(eigenvalues, rhs) ==
  Cardinality({i \in Idx : Lt(Mul(eigenvalues[i], rhs), Zero)})

SameSign(eigenvalues, rhs) ==
  Cardinality({i \in Idx : Gt(Mul(eigenvalues[i], rhs), Zero)})

\* the classification of the superseded copy of analyzeSurface: one label for
\* both kinds of intersecting planes
CentralTypeSimplified(eigenvalues, c_prime) ==
  LET rank == Rank(eigenvalues)
      sigPos == SigPos(eigenvalues)
      sigNeg == SigNeg(eigenvalues)
  IN  IF rank = 3
      THEN IF Lt(MathAbs(c_prime), epsilon) THEN "Cone or Point"
           ELSE IF (sigPos = 3 \/ sigNeg = 3) /\ Lt(Mul(c_prime, eigenvalues[1]), Zero)
           THEN "Ellipsoid"
           ELSE IF sigPos = 2 \/ sigNeg = 2
           THEN IF Lt(Mul(c_prime, IF sigPos = 2 THEN Rat(1) ELSE Rat(-1)), Zero)
                THEN "Hyperboloid 1-Sheet"
                ELSE "Hyperboloid 2-Sheets"
           ELSE "General Quadric"
      ELSE IF rank = 2
      THEN IF Lt(MathAbs(c_prime), epsilon) THEN "Intersecting Planes"
           ELSE IF sigPos = 2 \/ sigNeg = 2 THEN "Elliptic Cylinder"
           ELSE "Hyperbolic Cylinder"
      ELSE IF rank = 1
      THEN IF Lt(MathAbs(c_prime), epsilon) THEN "Coincident Planes"
           ELSE "Parallel Planes"
      ELSE "General Quadric"

CentralType(eigenvalues, c_prime) ==
  LET rank == Rank(eigenvalues)
      sigPos == SigPos(eigenvalues)
      sigNeg == SigNeg(eigenvalues)
      sameSign == SameSign(eigenvalues, Neg(c_prime))
  IN  IF rank = 3
      THEN IF Lt(MathAbs(c_prime), epsilon) THEN "Cone (Real or Imaginary)"
           ELSE IF sameSign = 3 THEN "Ellipsoid"
           ELSE IF sameSign = 2 THEN "Hyperboloid of One Sheet"
           ELSE IF sameSign = 1 THEN "Hyperboloid of Two Sheets"
           ELSE "Imaginary Ellipsoid"
      ELSE IF rank = 2
      THEN IF Lt(MathAbs(c_prime), epsilon)
           THEN IF sigPos = 2 \/ sigNeg = 2
                THEN "Intersecting Planes (Imaginary)"
                ELSE "Intersecting Planes"
           ELSE IF sigPos = 2 \/ sigNeg = 2
                THEN "Elliptic Cylinder"
                ELSE "Hyperbolic Cylinder"
      ELSE IF rank = 1
      THEN IF Lt(MathAbs(c_prime), epsilon)
           THEN "Coincident Planes"
           ELSE "Parallel Planes"
      ELSE "General Quadric"

\* the single paraboloid label of the superseded copy of analyzeSurface
ParabolicTypeUnsplit(eigenvalues) ==
  IF Rank(eigenvalues) = 2 THEN "Paraboloid (Elliptic or Hyperbolic)"
  ELSE IF Rank(eigenvalues) = 1 THEN "Parabolic Cylinder"
  ELSE "General Quadric"

ParabolicType(eigenvalues) ==
  LET rank == Rank(eigenvalues)
      sigPos == SigPos(eigenvalues)
      sigNeg == SigNeg(eigenvalues)
  IN  IF rank = 2
      THEN IF sigPos = 2 \/ sigNeg = 2
           THEN "Elliptic Paraboloid"
           ELSE "Hyperbolic Paraboloid"
      ELSE IF rank = 1 THEN "Parabolic Cylinder"
      ELSE "General Quadric"

SurfaceType(eigenvalues, linearVars, c_prime) ==
  IF Len(linearVars) > 0
  THEN ParabolicType(eigenvalues)
  ELSE CentralType(eigenvalues, c_prime)

\* a centre type by rank alone: a plane of centres when one eigenvalue is left
CenterTypeByRank(eigenvalues, linearVars) ==
  IF Len(linearVars) > 0 THEN "None"
  ELSE IF Rank(eigenvalues) = 3 THEN "Point"
  ELSE IF Rank(eigenvalues) = 2 THEN "Line"
  ELSE "Plane"

CenterType(eigenvalues, linearVars) ==
  IF Len(linearVars) > 0 THEN "None"
  ELSE IF Rank(eigenvalues) = 3 THEN "Point"
  ELSE "Line"

(***************************************************************************)
(* analyzeSurface as a whole, for one answer of the eigensolver.  The      *)
(* record keeps the locals the properties speak about next to the fields   *)
(* of the returned AnalysisResult.                                         *)
(***************************************************************************)
analyzeSurface(k, ans) ==
  LET A == MatrixA(k)
      J == VectorJ(k)
      eigPairs == SortPairs(EigPairs(ans))
      eigenvalues == [i \in Idx |-> eigPairs[i].val]
      assembled == AssembleM(eigPairs)
      M == Orient(assembled)
      J_prime == multiply(transpose(M), J)
      st == Loop(k, eigenvalues, J_prime)
  IN  [A |-> A,
       J |-> J,
       values |-> ans.values,
       assembled |-> assembled,
       eigenvalues |-> eigenvalues,
       rotationMatrix |-> M,
       J_prime |-> J_prime,
       S |-> st.S,
       c_prime |-> st.c_prime,
       linearVars |-> st.linearVars,
       translationVector |-> multiply(M, st.S),
       terms |-> Terms(eigenvalues, st.linearVars, J_prime, st.c_prime),
       standardForm |->
         StandardForm(Terms(eigenvalues, st.linearVars, J_prime, st.c_prime)),
       centerType |-> CenterType(eigenvalues, st.linearVars),
       surfaceType |-> SurfaceType(eigenvalues, st.linearVars, st.c_prime)]

(***************************************************************************)
(* The inputs: the quadric with principal axes v, eigenvalues lam, linear  *)
(* coefficients lin and constant c, given by its ten coefficients.         *)
(***************************************************************************)
Quadric(v, lam, lin, c) ==
  LET a == MatMul(v, MatMul(Diag(lam), transpose(v)))
  IN  [a11 |-> a[1][1], a22 |-> a[2][2], a33 |-> a[3][3],
       a12 |-> Mul(Rat(2), a[1][2]), a23 |-> Mul(Rat(2), a[2][3]),
       a13 |-> Mul(Rat(2), a[1][3]),
       b1 |-> lin[1], b2 |-> lin[2], b3 |-> lin[3], c |-> c]

LamVals == {Rat(-MaxLam), Zero, Rat(MaxLam)}

LinVals == {Zero, Rat(MaxLin)}

ConstVals == {Rat(-MaxConst), Zero}

Inputs ==
  {Quadric(v, lam, lin, c) :
     v \in BaseFrames, lam \in [Idx -> LamVals], lin \in [Idx -> LinVals],
     c \in ConstVals}

Coefficients(a11, a22, a33, a12, a23, a13, b1, b2, b3, c) ==
  [a11 |-> Rat(a11), a22 |-> Rat(a22), a33 |-> Rat(a33),
   a12 |-> Rat(a12), a23 |-> Rat(a23), a13 |-> Rat(a13),
   b1 |-> Rat(b1), b2 |-> Rat(b2), b3 |-> Rat(b3), c |-> Rat(c)]

UnitSphere == Coefficients(1, 1, 1, 0, 0, 0, 0, 0, 0, -1)

HyperbolicParaboloid == Coefficients(1, -1, 0, 0, 0, 0, 0, 0, -1, 0)

DegenerateCone == Coefficients(1, 1, -1, 0, 0, 0, 0, 0, 0, 0)

ParallelPlanes == Coefficients(1, 0, 0, 0, 0, 0, 0, 0, 0, -4)

\* INITIAL_COEFFICIENTS
InitialCoefficients == Coefficients(1, 1, -1, 0, 0, 0, 0, 0, 0, -1)

\* 2x^2 + y^2 - z^2 + x + y + 1 = 0 and 2x^2 - 3z^2 + y + z + 1 = 0
ShiftedHyperboloid == Coefficients(2, 1, -1, 0, 0, 0, 1, 1, 0, 1)

ShiftedParaboloid == Coefficients(2, 0, -3, 0, 0, 0, 0, 1, 1, 1)

\* quadrics whose constant is exactly the tolerance
AtTolerance ==
  {[k EXCEPT !.c = epsilon] :
     k \in {UnitSphere, DegenerateCone, ParallelPlanes, HyperbolicParaboloid,
            Coefficients(1, -1, 0, 0, 0, 0, 0, 0, 0, 0),
            Coefficients(0, 0, 0, 0, 0, 0, 0, 0, 0, 0)}}

\* y^2 + z^2 - 1 = 0 with a linear coefficient that is exactly the tolerance
NegligibleLinear == [Coefficients(0, 1, 1, 0, 0, 0, 0, 0, 0, -1) EXCEPT !.b1 = epsilon]

Scenarios ==
  {UnitSphere, HyperbolicParaboloid, DegenerateCone, ParallelPlanes,
   InitialCoefficients, ShiftedHyperboloid, ShiftedParaboloid, NegligibleLinear}
    \cup AtTolerance

NoAnalysis == [surfaceType |-> "-"]

Init ==
  /\ coeffs \in Inputs \cup Scenarios
  /\ pc = "ready"
  /\ an = NoAnalysis
  /\ arg = Idle /\ fs = Idle /\ app = Idle /\ ni = Idle

Analyze ==
  /\ pc = "ready"
  /\ \E ans \in eigs(MatrixA(coeffs)) : an' = analyzeSurface(coeffs, ans)
  /\ pc' = "done"
  /\ UNCHANGED <<coeffs, besideAnalysis>>

Next == Analyze

Spec == Init /\ [][Next]_vars

(***************************************************************************)
(* Properties.                                                             *)
(***************************************************************************)
Done == pc = "done"

\* the polynomial the visualizer samples
F(k, p) ==
  LET xi == p[1]
      yi == p[2]
      zi == p[3]
      sum(u, v) == Add(u, v)
  IN  sum(sum(sum(sum(sum(sum(sum(sum(sum(
        Mul(Mul(k.a11, xi), xi),
        Mul(Mul(k.a22, yi), yi)),
        Mul(Mul(k.a33, zi), zi)),
        Mul(Mul(k.a12, xi), yi)),
        Mul(Mul(k.a23, yi), zi)),
        Mul(Mul(k.a13, xi), zi)),
        Mul(k.b1, xi)),
        Mul(k.b2, yi)),
        Mul(k.b3, zi)),
        k.c)

Points == [Idx -> {Rat(n) : n \in 0 .. MaxPt}]

\* x^T A x + J.x + c
MatrixForm(a, j, c, x) == Add(Add(Dot(x, multiply(a, x)), Dot(j, x)), c)

ParabolicAxes == {an.linearVars[n] : n \in 1 .. Len(an.linearVars)}

NonDegenerate(i) == Gt(MathAbs(an.eigenvalues[i]), epsilon)

\* C1: the matrix A and the vector J built by analyzeSurface give, at every
\* point, the value of the polynomial F the visualizer samples: A is
\* symmetric, its diagonal holds a11, a22, a33 and each off-diagonal entry is
\* half of its cross-coefficient.
C1_MatrixFormIsF ==
  LET A == MatrixA(coeffs)
      J == VectorJ(coeffs)
  IN  /\ \A p \in Points : MatrixForm(A, J, coeffs.c, p) = F(coeffs, p)
      /\ A = transpose(A)
      /\ A[1][1] = coeffs.a11 /\ A[2][2] = coeffs.a22 /\ A[3][3] = coeffs.a33
      /\ Add(A[1][2], A[1][2]) = coeffs.a12
      /\ Add(A[2][3], A[2][3]) = coeffs.a23
      /\ Add(A[1][3], A[1][3]) = coeffs.a13
      /\ J = <<coeffs.b1, coeffs.b2, coeffs.b3>>
      /\ Done => (an.A = A /\ an.J = J)

\* an analysed quadric with a cross term xy
C1_Witness == Done /\ coeffs.a12 # Zero /\ coeffs.b1 # Zero

\* values within the tolerance are exactly zero
ExactZeros ==
  \A i \in Idx :
    /\ ~Gt(MathAbs(an.eigenvalues[i]), epsilon) => an.eigenvalues[i] = Zero
    /\ ~Gt(MathAbs(an.J_prime[i]), epsilon) => an.J_prime[i] = Zero

\* C2: substituting X = M.X' + tau into the original polynomial gives
\* sum_i eigenvalues[i]*x'_i^2 + sum over the parabolic axes of J'_i*x'_i + c'.
\* The substitution is X'^T (M^T A M) X' + (2 M^T A tau + M^T J).X' + F(tau),
\* so the three parts are compared coefficient by coefficient.
C2_StandardFormIsF ==
  (Done /\ ExactZeros) =>
    LET M == an.rotationMatrix
        tau == an.translationVector
        MT == transpose(M)
        lin == multiply(MT, multiply(an.A, tau))
        rot == multiply(MT, VectorJ(coeffs))
    IN  /\ Conj(M, MatrixA(coeffs)) = Diag(an.eigenvalues)
        /\ \A i \in Idx :
             Add(Add(lin[i], lin[i]), rot[i]) =
               IF i \in ParabolicAxes THEN an.J_prime[i] ELSE Zero
        /\ MatrixForm(MatrixA(coeffs), VectorJ(coeffs), coeffs.c, tau) = an.c_prime

\* a rotated quadric whose centre is not the origin and whose constant moved
C2_Witness ==
  /\ Done
  /\ coeffs.a12 # Zero
  /\ an.translationVector # <<Zero, Zero, Zero>>
  /\ an.c_prime # coeffs.c
  /\ an.c_prime # Zero

\* C3: the rotationMatrix M is orthogonal with determinant +1: the matrix
\* assembled from the sorted eigenvectors has its third column negated when
\* its determinant is negative and is returned unchanged otherwise.
C3_Rotation ==
  Done =>
    LET M == an.rotationMatrix
        N == an.assembled
    IN  /\ MatMul(transpose(M), M) = Identity
        /\ det(M) = Rat(1)
        /\ \A i \in Idx : M[i][1] = N[i][1] /\ M[i][2] = N[i][2]
        /\ Lt(det(N), Zero) => \A i \in Idx : M[i][3] = Neg(N[i][3])
        /\ ~Lt(det(N), Zero) => \A i \in Idx : M[i][3] = N[i][3]

\* the solver's eigenvectors, once sorted, made a reflection
C3_Witness == Done /\ det(an.assembled) = Rat(-1) /\ coeffs.a12 # Zero

\* C4: M^T.A.M = diag(eigenvalues): column i of the returned M is an
\* eigenvector of A for eigenvalues[i], after the sort and the orientation fix.
C4_Diagonalization ==
  Done =>
    LET M == an.rotationMatrix
        A == MatrixA(coeffs)
        col(i) == transpose(M)[i]
    IN  /\ Conj(M, A) = Diag(an.eigenvalues)
        /\ \A i \in Idx :
             multiply(A, col(i)) = [j \in Idx |-> Mul(an.eigenvalues[i], col(i)[j])]

\* three different eigenvalues that the solver returned in another order, and
\* a third column that was negated
C4_Witness ==
  /\ Done
  /\ an.values # an.eigenvalues
  /\ an.rotationMatrix # an.assembled
  /\ Cardinality({an.eigenvalues[i] : i \in Idx}) = 3

\* C5: the returned eigenvalues are in descending order, whatever order the
\* solver returned them in.
C5_Descending ==
  Done =>
    /\ ~Lt(an.eigenvalues[1], an.eigenvalues[2])
    /\ ~Lt(an.eigenvalues[2], an.eigenvalues[3])
    /\ \A v \in {an.values[i] : i \in Idx} :
         Cardinality({i \in Idx : an.eigenvalues[i] = v}) =
           Cardinality({i \in Idx : an.values[i] = v})

\* the solver returned the eigenvalues in ascending order
C5_Witness ==
  /\ Done
  /\ Lt(an.values[1], an.values[2])
  /\ Lt(an.values[2], an.values[3])

\* C6: on every axis with |eigenvalue| > 1e-5 the shift is
\* S_i = -J'_i / (2*eigenvalues[i]), and the linear coefficient left on that
\* axis, 2*eigenvalues[i]*S_i + J'_i, is zero.
C6_ShiftRemovesLinear ==
  Done =>
    \A i \in Idx :
      NonDegenerate(i) =>
        /\ Mul(Mul(Rat(-2), an.eigenvalues[i]), an.S[i]) = an.J_prime[i]
        /\ Add(Mul(Mul(Rat(2), an.eigenvalues[i]), an.S[i]),
               multiply(transpose(an.rotationMatrix), VectorJ(coeffs))[i]) = Zero
        /\ multiply(transpose(an.rotationMatrix), an.translationVector)[i] = an.S[i]

\* a non-degenerate axis with a linear coefficient to remove
C6_Witness ==
  Done /\ \E i \in Idx : NonDegenerate(i) /\ an.J_prime[i] # Zero /\ an.S[i] # Zero

HasLinear == Len(an.linearVars) > 0

ConstantShown == \E n \in 1 .. Len(an.terms) : an.terms[n].kind = "const"

LinearShown == {n \in 1 .. Len(an.terms) : an.terms[n].kind = "lin"}

\* C7: when at least one axis is flagged parabolic, the residual constant c'
\* at the end of the completing-the-square loop is zero and the standard form
\* has no constant term.
C7_ConstantAbsorbed ==
  (Done /\ HasLinear) => (an.c_prime = Zero /\ ~ConstantShown)

\* C8: at most one axis is flagged parabolic and the standard form holds at
\* most one linear term, that of the first degenerate axis with a
\* non-negligible rotated linear coefficient.
C8_OneLinearTerm ==
  Done =>
    /\ Len(an.linearVars) <= 1
    /\ Cardinality(LinearShown) <= 1
    /\ \A n \in LinearShown :
         \A i \in Idx :
           (~NonDegenerate(i) /\ Gt(MathAbs(an.J_prime[i]), epsilon))
             => an.terms[n].axis <= i

\* the number of eigenvalues whose sign is that of -c'
MatchingSigns ==
  Cardinality({i \in Idx :
                 \/ Gt(an.eigenvalues[i], Zero) /\ Lt(an.c_prime, Zero)
                 \/ Lt(an.eigenvalues[i], Zero) /\ Gt(an.c_prime, Zero)})

\* C9: with no parabolic axis and three eigenvalues beyond the tolerance, the
\* surface is a cone when |c'| < 1e-5 and is otherwise named by the number of
\* eigenvalues with eigenvalue*(-c') > 0: 3 an ellipsoid, 2 a hyperboloid of
\* one sheet, 1 a hyperboloid of two sheets, 0 an imaginary ellipsoid.  The
\* unit sphere is an ellipsoid and x^2 + y^2 - z^2 = 0 a cone.
C9_CentralRankThree ==
  (Done /\ ~HasLinear /\ \A i \in Idx : NonDegenerate(i)) =>
    /\ an.surfaceType =
         IF Lt(MathAbs(an.c_prime), epsilon) THEN "Cone (Real or Imaginary)"
         ELSE CASE MatchingSigns = 3 -> "Ellipsoid"
                [] MatchingSigns = 2 -> "Hyperboloid of One Sheet"
                [] MatchingSigns = 1 -> "Hyperboloid of Two Sheets"
                [] MatchingSigns = 0 -> "Imaginary Ellipsoid"
    /\ coeffs = UnitSphere => an.surfaceType = "Ellipsoid"
    /\ coeffs = DegenerateCone => an.surfaceType = "Cone (Real or Imaginary)"

\* a hyperboloid of two sheets whose constant came from completing the square
C9_Witness ==
  /\ Done
  /\ an.surfaceType = "Hyperboloid of Two Sheets"
  /\ an.c_prime # coeffs.c

\* the axes with an eigenvalue beyond the tolerance
Axes == {i \in Idx : NonDegenerate(i)}

SameSigned == \A i, j \in Axes : Gt(Mul(an.eigenvalues[i], an.eigenvalues[j]), Zero)

\* C10: with a parabolic axis, the surface is an elliptic paraboloid when two
\* eigenvalues are beyond the tolerance and have the same sign, a hyperbolic
\* paraboloid when they have opposite signs, and a parabolic cylinder when
\* one eigenvalue is beyond the tolerance; x^2 - y^2 - z = 0 is a hyperbolic
\* paraboloid.
C10_ParabolicTypes ==
  (Done /\ HasLinear) =>
    /\ (Cardinality(Axes) = 2 /\ SameSigned) => an.surfaceType = "Elliptic Paraboloid"
    /\ (Cardinality(Axes) = 2 /\ ~SameSigned) => an.surfaceType = "Hyperbolic Paraboloid"
    /\ Cardinality(Axes) = 1 => an.surfaceType = "Parabolic Cylinder"
    /\ coeffs = HyperbolicParaboloid => an.surfaceType = "Hyperbolic Paraboloid"

\* x^2 - y^2 - z = 0 analysed, with its parabolic axis
C10_Witness ==
  Done /\ coeffs = HyperbolicParaboloid /\ HasLinear /\ Cardinality(Axes) = 2

\* C11: with no parabolic axis and at most two eigenvalues beyond the
\* tolerance: two such eigenvalues give intersecting planes when |c'| < 1e-5
\* (the imaginary label exactly when both have the same sign), and otherwise
\* an elliptic cylinder when both have the same sign and a hyperbolic one
\* when they differ; one gives parallel planes when |c'| >= 1e-5 and
\* coincident planes otherwise; none gives "General Quadric".
C11_DegenerateCentral ==
  (Done /\ ~HasLinear /\ Cardinality(Axes) <= 2) =>
    LET small == Lt(MathAbs(an.c_prime), epsilon)
    IN  an.surfaceType =
          CASE Cardinality(Axes) = 2 /\ small /\ SameSigned ->
                 "Intersecting Planes (Imaginary)"
            [] Cardinality(Axes) = 2 /\ small /\ ~SameSigned -> "Intersecting Planes"
            [] Cardinality(Axes) = 2 /\ ~small /\ SameSigned -> "Elliptic Cylinder"
            [] Cardinality(Axes) = 2 /\ ~small /\ ~SameSigned -> "Hyperbolic Cylinder"
            [] Cardinality(Axes) = 1 /\ ~small -> "Parallel Planes"
            [] Cardinality(Axes) = 1 /\ small -> "Coincident Planes"
            [] Cardinality(Axes) = 0 -> "General Quadric"

\* a rotated pair of imaginary planes
C11_Witness ==
  /\ Done
  /\ ~HasLinear
  /\ Cardinality(Axes) = 2
  /\ SameSigned
  /\ Lt(MathAbs(an.c_prime), epsilon)
  /\ coeffs.a12 # Zero

\* C12: centerType is "None" when some axis is flagged parabolic, otherwise
\* "Point" when three eigenvalues are beyond the tolerance, otherwise "Line";
\* it is never "Plane" or "Unknown".
C12_CenterType ==
  Done =>
    /\ an.centerType =
         IF HasLinear THEN "None"
         ELSE IF Cardinality(Axes) = 3 THEN "Point"
         ELSE "Line"
    /\ an.centerType \notin {"Plane", "Unknown"}

\* parallel planes, whose centres fill a plane, reported with centre "Line"
C12_Witness ==
  Done /\ ~HasLinear /\ Cardinality(Axes) = 1 /\ an.centerType = "Line"

\* the terms the standard form shows: value and text without the sign
Squares ==
  LET axes == SelectSeq(<<1, 2, 3>>, NonDegenerate)
  IN  [n \in 1 .. Len(axes) |->
         LET lam == an.eigenvalues[axes[n]]
         IN  [value |-> lam,
              text |-> (IF MathAbs(lam) = Rat(1) THEN "" ELSE ToFixed2(MathAbs(lam)))
                         \o AxisVars[axes[n]] \o "^2"]]

Linears ==
  [n \in 1 .. Len(an.linearVars) |->
     LET i == an.linearVars[n]
     IN  [value |-> an.J_prime[i],
          text |-> ToFixed2(MathAbs(an.J_prime[i])) \o AxisVars[i]]]

Constant ==
  IF Gt(MathAbs(an.c_prime), epsilon)
  THEN << [value |-> an.c_prime, text |-> ToFixed2(MathAbs(an.c_prime))] >>
  ELSE <<>>

\* the first n of the shown terms written left to right
RECURSIVE Written(_, _)
Written(shown, n) ==
  IF n = 0 THEN ""
  ELSE Written(shown, n - 1)
         \o (IF Lt(shown[n].value, Zero)
             THEN (IF n = 1 THEN "- " ELSE " - ")
             ELSE (IF n = 1 THEN "" ELSE " + "))
         \o shown[n].text

SolverPairs ==
  [i \in Idx |->
     [val |-> an.eigenvalues[i],
      vec |-> <<an.assembled[1][i], an.assembled[2][i], an.assembled[3][i]>>]]

\* the answer of a solver that returns these eigenpairs in the order p
Reordered(p) ==
  [values |-> [i \in Idx |-> SolverPairs[p[i]].val],
   vectors |-> [r \in Idx |-> [j \in Idx |-> SolverPairs[p[j]].vec[r]]]]

\* what analyzeSurface returns for the answer ans, as far as the classifier goes
Classified(k, ans) ==
  LET eigPairs == SortPairs(EigPairs(ans))
      eigenvalues == [i \in Idx |-> eigPairs[i].val]
      M == Orient(AssembleM(eigPairs))
      J_prime == multiply(transpose(M), VectorJ(k))
      st == Loop(k, eigenvalues, J_prime)
  IN  [eigenvalues |-> eigenvalues,
       surfaceType |-> SurfaceType(eigenvalues, st.linearVars, st.c_prime),
       centerType |-> CenterType(eigenvalues, st.linearVars)]

\* C14: in whatever order the solver returns the same three eigenpairs,
\* analyzeSurface returns the same eigenvalues, the same surfaceType and the
\* same centerType.
C14_OrderIndependent ==
  Done =>
    \A p \in Perms :
      Classified(coeffs, Reordered(p)) =
        [eigenvalues |-> an.eigenvalues,
         surfaceType |-> an.surfaceType,
         centerType |-> an.centerType]

\* a double zero eigenvalue whose two axes carry different linear
\* coefficients, returned by the solver in an order that had to be sorted
C14_Witness ==
  /\ Done
  /\ an.values # an.eigenvalues
  /\ an.eigenvalues[2] = Zero /\ an.eigenvalues[3] = Zero
  /\ an.J_prime[2] # Zero
  /\ MathAbs(an.J_prime[2]) # MathAbs(an.J_prime[3])

(***************************************************************************)
(* formatSmart (components/ResultPanel).  Its argument is a number given   *)
(* exactly: a rational, the square root of a rational that is no square of *)
(* a rational, NaN or an infinity.  Every comparison of the source is      *)
(* decided on the exact value.                                             *)
(***************************************************************************)
Rational(n, d) == [kind |-> "rat", value |-> Q(n, d)]

Root(neg, n, d) == [kind |-> "root", neg |-> neg, radicand |-> Q(n, d)]

NaN == [kind |-> "nan"]

Infinity(neg) == [kind |-> "inf", neg |-> neg]

ABS_TOLERANCE == <<1, 100000>>

\* the last denominators tried by the fraction rung and by the radical rung
FractionLimit == 50

RadicalLimit == 100

\* stands for the character U+221A of the template strings
Surd == "sqrt"

\* val < 0
IsNegative(x) ==
  CASE x.kind = "rat" -> x.value[1] < 0
    [] x.kind \in {"root", "inf"} -> x.neg
    [] OTHER -> FALSE

\* the sign left out
FormatSignNone(x) == ""

FormatSign(x) == IF IsNegative(x) THEN "-" ELSE ""

\* Math.abs(val)
Magnitude(x) ==
  CASE x.kind = "rat" -> [x EXCEPT !.value = MathAbs(x.value)]
    [] x.kind \in {"root", "inf"} -> [x EXCEPT !.neg = FALSE]
    [] OTHER -> x

\* x * q for x >= 0 and an integer q >= 1
Times(x, q) ==
  CASE x.kind = "rat" -> [x EXCEPT !.value = Mul(x.value, Rat(q))]
    [] x.kind = "root" -> [x EXCEPT !.radicand = Mul(x.radicand, Rat(q * q))]
    [] OTHER -> x

\* absVal * absVal
Squared(x) ==
  CASE x.kind = "rat" -> [x EXCEPT !.value = Mul(x.value, x.value)]
    [] x.kind = "root" -> [kind |-> "rat", value |-> x.radicand]
    [] OTHER -> x

\* the least m >= from with sqrt(t) < m + 1/2
RECURSIVE RoundRoot(_, _)
RoundRoot(t, from) ==
  IF 4 * t[1] < (2 * from + 1) * (2 * from + 1) * t[2]
  THEN from
  ELSE RoundRoot(t, from + 1)

\* Math.round of a finite x >= 0
MathRound(x) ==
  IF x.kind = "rat"
  THEN (2 * x.value[1] + x.value[2]) \div (2 * x.value[2])
  ELSE RoundRoot(x.radicand, 0)

\* Math.abs(val) < ABS_TOLERANCE.  A root sqrt(a/d) with a >= 1 and d below
\* 2^31 is above 1e-5.
BelowTolerance(x) ==
  x.kind = "rat" /\ Lt(MathAbs(x.value), ABS_TOLERANCE)

\* Math.abs(p - Math.round(p)) < ABS_TOLERANCE for p >= 0; false for NaN and
\* the infinities.  For p = sqrt(t) and m = Math.round(p) the test
\* |sqrt(t) - m| < 1e-5 is t - m^2 < 2m/10^5 + 10^-10 above m and
\* m^2 - t < 2m/10^5 - 10^-10 below m; with the denominator of t below 10^5
\* the term 10^-10 decides nothing but the case of equality.
NearInteger(p) ==
  CASE p.kind = "rat" ->
         Lt(MathAbs(Sub(p.value, Rat(MathRound(p)))), ABS_TOLERANCE)
    [] p.kind = "root" ->
         LET m == MathRound(p)
             t == p.radicand
             gap == MathAbs(Sub(t, Rat(m * m)))
             reach == Q(2 * m, 100000)
         IN  IF Lt(t, Rat(m * m)) THEN Lt(gap, reach) ELSE ~Gt(gap, reach)
    [] OTHER -> FALSE

\* the arguments of the next call of gcd, without the remainder
GcdArgsSwapped(a, b) == <<b, a>>

\* gcd(a, b) calls gcd(b, a % b)
GcdArgs(a, b) == <<b, a % b>>

\* Math.floor(Math.sqrt(n))
FloorSqrt(n) == CHOOSE i \in 0 .. n : i * i <= n /\ (i + 1) * (i + 1) > n

\* the least n in lo .. hi with 10^4 * sqrt(t) < n + 1/2
RECURSIVE RoundScaledRoot(_, _, _)
RoundScaledRoot(t, lo, hi) ==
  IF lo = hi THEN lo
  ELSE LET mid == (lo + hi) \div 2
       IN  IF Lt(t, Q((2 * mid + 1) * (2 * mid + 1), 400000000))
           THEN RoundScaledRoot(t, lo, mid)
           ELSE RoundScaledRoot(t, mid + 1, hi)

FourDigits(n) ==
  ToString(n \div 10000) \o "." \o ToString((n \div 1000) % 10)
    \o ToString((n \div 100) % 10) \o ToString((n \div 10) % 10) \o ToString(n % 10)

\* val.toFixed(4): the nearest multiple of 10^-4 to the magnitude, the larger
\* one on a tie, after the sign
ToFixed4(x) ==
  CASE x.kind = "nan" -> "NaN"
    [] x.kind = "inf" -> FormatSign(x) \o "Infinity"
    [] x.kind = "rat" ->
         LET v == MathAbs(x.value)
         IN  FormatSign(x) \o FourDigits((20000 * v[1] + v[2]) \div (2 * v[2]))
    [] x.kind = "root" ->
         FormatSign(x) \o FourDigits(RoundScaledRoot(x.radicand, 0, 20000))

\* every part written in full, as coeff, the root sign and rad
RootTextFull(r) == ToString(r.coeff) \o Surd \o ToString(r.rad)

\* a number with coeff^2 * rad = n, written as the template strings write it
RootText(r) ==
  IF r.rad = 1 THEN ToString(r.coeff)
  ELSE IF r.coeff = 1 THEN Surd \o ToString(r.rad)
  ELSE ToString(r.coeff) \o Surd \o ToString(r.rad)

NoRoot == [coeff |-> 0, rad |-> 0]

FormatFrame ==
  [pc |-> "start", q |-> 0, pInt |-> 0, a |-> 0, b |-> 0, common |-> 0,
   caller |-> "-", num |-> 0, den |-> 0, n |-> 0, i |-> 0, part |-> "-",
   sNum |-> NoRoot, sDen |-> NoRoot, rung |-> "-", ret |-> "-"]

\* a return statement of formatSmart
Return(rung, string) ==
  fs' = [fs EXCEPT !.pc = "returned", !.rung = rung, !.ret = string]

\* the zero check and the integer rung
ZeroAndInteger ==
  /\ fs.pc = "start"
  /\ IF BelowTolerance(arg)
     THEN Return("zero", "0")
     ELSE IF NearInteger(Magnitude(arg))
     THEN Return("integer", FormatSign(arg) \o ToString(MathRound(Magnitude(arg))))
     ELSE fs' = [fs EXCEPT !.pc = "fraction", !.q = 2]
  /\ UNCHANGED <<arg, besideFormat>>

\* one turn of the loop of the fraction rung
FractionLoop ==
  /\ fs.pc = "fraction"
  /\ IF fs.q > FractionLimit
     THEN fs' = [fs EXCEPT !.pc = "radical", !.q = 1]
     ELSE LET p == Times(Magnitude(arg), fs.q)
          IN  IF NearInteger(p)
              THEN fs' = [fs EXCEPT !.pc = "gcd", !.caller = "fraction",
                                    !.pInt = MathRound(p),
                                    !.a = MathRound(p), !.b = fs.q]
              ELSE fs' = [fs EXCEPT !.q = fs.q + 1]
  /\ UNCHANGED <<arg, besideFormat>>

\* one call of gcd
GcdCall ==
  /\ fs.pc = "gcd"
  /\ IF fs.b = 0
     THEN fs' = [fs EXCEPT !.common = fs.a,
                           !.pc = IF fs.caller = "fraction"
                                  THEN "fractionReturn"
                                  ELSE "reduce"]
     ELSE fs' = [fs EXCEPT !.a = GcdArgs(fs.a, fs.b)[1],
                           !.b = GcdArgs(fs.a, fs.b)[2]]
  /\ UNCHANGED <<arg, besideFormat>>

FractionReturn ==
  /\ fs.pc = "fractionReturn"
  /\ Return("fraction",
            FormatSign(arg) \o ToString(fs.pInt \div fs.common)
              \o "/" \o ToString(fs.q \div fs.common))
  /\ UNCHANGED <<arg, besideFormat>>

\* one turn of the loop of the radical rung
RadicalLoop ==
  /\ fs.pc = "radical"
  /\ IF fs.q > RadicalLimit
     THEN fs' = [fs EXCEPT !.pc = "fallback"]
     ELSE LET p == Times(Squared(Magnitude(arg)), fs.q)
          IN  IF NearInteger(p)
              THEN fs' = [fs EXCEPT !.pc = "gcd", !.caller = "radical",
                                    !.pInt = MathRound(p),
                                    !.a = MathRound(p), !.b = fs.q]
              ELSE fs' = [fs EXCEPT !.q = fs.q + 1]
  /\ UNCHANGED <<arg, besideFormat>>

\* x^2 = num/den in lowest terms; simplifyRoot(num) is entered
Reduce ==
  /\ fs.pc = "reduce"
  /\ fs' = [fs EXCEPT !.pc = "simplifyRoot", !.part = "num",
                      !.num = fs.pInt \div fs.common,
                      !.den = fs.q \div fs.common,
                      !.n = fs.pInt \div fs.common,
                      !.i = FloorSqrt(fs.pInt \div fs.common)]
  /\ UNCHANGED <<arg, besideFormat>>

\* simplifyRoot returns r: to simplifyRoot(den) after the numerator, to the
\* strings after the denominator
Simplified(r) ==
  IF fs.part = "num"
  THEN fs' = [fs EXCEPT !.sNum = r, !.part = "den", !.n = fs.den,
                        !.i = FloorSqrt(fs.den)]
  ELSE fs' = [fs EXCEPT !.sDen = r, !.pc = "strings"]

\* one turn of the loop of simplifyRoot, or the return after it
SimplifyRootLoop ==
  /\ fs.pc = "simplifyRoot"
  /\ IF fs.i >= 1
     THEN IF fs.n % (fs.i * fs.i) = 0
          THEN Simplified([coeff |-> fs.i, rad |-> fs.n \div (fs.i * fs.i)])
          ELSE fs' = [fs EXCEPT !.i = fs.i - 1]
     ELSE Simplified([coeff |-> 1, rad |-> fs.n])
  /\ UNCHANGED <<arg, besideFormat>>

\* numStr, denStr and the two returns of the radical rung
RadicalReturn ==
  /\ fs.pc = "strings"
  /\ LET numStr == RootText(fs.sNum)
         denStr == RootText(fs.sDen)
     IN  IF fs.sDen.rad = 1 /\ fs.sDen.coeff = 1
         THEN Return("radical", FormatSign(arg) \o numStr)
         ELSE Return("radical", FormatSign(arg) \o numStr \o "/" \o denStr)
  /\ UNCHANGED <<arg, besideFormat>>

Fallback ==
  /\ fs.pc = "fallback"
  /\ Return("fallback", ToFixed4(arg))
  /\ UNCHANGED <<arg, besideFormat>>

(***************************************************************************)
(* The arguments: every rational and every root within the bounds, and     *)
(* the samples that reach the limits of the rungs.                         *)
(***************************************************************************)
MaxNum == 4
MaxDen == 5
MaxRadicand == 6
MaxRadicandDen == 6

IsSquare(n) == \E i \in 0 .. n : i * i = n

Rationals ==
  {Rational(s * n, d) : s \in {-1, 1}, n \in 0 .. MaxNum, d \in 1 .. MaxDen}

\* sqrt(n/d) is irrational
IsSurd(n, d) == ~(IsSquare(Q(n, d)[1]) /\ IsSquare(Q(n, d)[2]))

Roots ==
  {Root(neg, n[1], n[2]) :
     neg \in BOOLEAN,
     n \in {m \in (1 .. MaxRadicand) \X (1 .. MaxRadicandDen) : IsSurd(m[1], m[2])}}

\* 3*sqrt(5)/7, sqrt(8), sqrt(12/25) and roots at the limit of the radical rung
RootSamples ==
  {Root(neg, n[1], n[2]) :
     neg \in BOOLEAN,
     n \in {<<45, 49>>, <<8, 1>>, <<12, 25>>, <<1, 99>>, <<99, 100>>,
            <<2, 101>>, <<3, 101>>}}

\* fractions at the limit of the fraction rung and values near the tolerance
RationalSamples ==
  {Rational(s * n[1], n[2]) :
     s \in {-1, 1},
     n \in {<<1, 50>>, <<49, 50>>, <<1, 51>>, <<50, 51>>, <<7, 1>>, <<1, 1000>>,
            <<1, 10000>>, <<1, 200000>>}}

FormatInputs ==
  Rationals \cup Roots \cup RationalSamples \cup RootSamples
    \cup {NaN, Infinity(FALSE), Infinity(TRUE)}

FormatInit ==
  /\ arg \in FormatInputs
  /\ fs = FormatFrame
  /\ coeffs = Idle /\ pc = "idle" /\ an = Idle /\ app = Idle /\ ni = Idle

FormatNext ==
  \/ ZeroAndInteger
  \/ FractionLoop
  \/ GcdCall
  \/ FractionReturn
  \/ RadicalLoop
  \/ Reduce
  \/ SimplifyRootLoop
  \/ RadicalReturn
  \/ Fallback

FormatSpec == FormatInit /\ [][FormatNext]_vars

Returned == fs.pc = "returned"

(***************************************************************************)
(* Properties of formatSmart.                                              *)
(***************************************************************************)
\* C15: a rational argument is shown exactly: "0" when |v| < 1e-5, the signed
\* integer when v is an integer, and "p/q" after the sign for v = +-p/q in
\* lowest terms with 2 <= q <= 50 (0.5 gives "1/2", -0.25 gives "-1/4", 2/3
\* gives "2/3"); such a value is returned by the zero check, the integer rung
\* or the fraction rung, never by the radical rung.
C15_ExactRationals ==
  (Returned /\ arg.kind = "rat") =>
    LET n == arg.value[1]
        d == arg.value[2]
    IN  /\ Lt(MathAbs(arg.value), ABS_TOLERANCE) => fs.ret = "0"
        /\ d = 1 => fs.ret = ToString(n)
        /\ (2 <= d /\ d <= 50) =>
             fs.ret = (IF n < 0 THEN "-" ELSE "") \o ToString(Abs(n)) \o "/" \o ToString(d)
        /\ d <= 50 => fs.rung \in {"zero", "integer", "fraction"}
        /\ arg = Rational(1, 2) => fs.ret = "1/2"
        /\ arg = Rational(-1, 4) => fs.ret = "-1/4"
        /\ arg = Rational(2, 3) => fs.ret = "2/3"

\* a negative fraction with the largest denominator of the fraction rung
C15_Witness == Returned /\ arg = Rational(-49, 50) /\ fs.rung = "fraction"

\* n = c^2 * r with c^2 the largest square dividing n, written as c, as the
\* root of r, or as c and the root of r
Radical(n) ==
  LET c == CHOOSE e \in 1 .. n :
             /\ n % (e * e) = 0
             /\ \A f \in 1 .. n : n % (f * f) = 0 => f <= e
      r == n \div (c * c)
  IN  IF r = 1 THEN ToString(c)
      ELSE IF c = 1 THEN Surd \o ToString(r)
      ELSE ToString(c) \o Surd \o ToString(r)

\* the square of the argument, a rational in lowest terms
SquareOfArg == Squared(Magnitude(arg)).value

\* C16: an argument that the zero check, the integer rung and the fraction
\* rung do not match, and whose square is num/den in lowest terms with
\* den <= 100, is shown as the sign, the radical form of num and, unless
\* den = 1, "/" and the radical form of den (sqrt 2, 2 sqrt 2 for sqrt 8,
\* 3 sqrt 5 / 7).
C16_Radicals ==
  (/\ Returned
   /\ arg.kind \in {"rat", "root"}
   /\ fs.rung \notin {"zero", "integer", "fraction"}
   /\ SquareOfArg[2] <= 100) =>
    /\ fs.ret =
         (IF IsNegative(arg) THEN "-" ELSE "")
           \o Radical(SquareOfArg[1])
           \o (IF SquareOfArg[2] = 1 THEN "" ELSE "/" \o Radical(SquareOfArg[2]))
    /\ arg = Root(FALSE, 2, 1) => fs.ret = Surd \o "2"
    /\ arg = Root(FALSE, 8, 1) => fs.ret = "2" \o Surd \o "2"
    /\ arg = Root(FALSE, 45, 49) => fs.ret = "3" \o Surd \o "5/7"

\* -2 sqrt 3 / 5: a sign, a coefficient, a root and a denominator
C16_Witness == Returned /\ arg = Root(TRUE, 12, 25) /\ fs.rung = "radical"

\* the statements of formatSmart in the order of its control flow: a step
\* never leads to a statement with a larger number
Phase(frame) ==
  CASE frame.pc = "start" -> 10
    [] frame.pc = "fraction" -> 9
    [] frame.pc = "radical" -> 8
    [] frame.pc = "gcd" -> 7
    [] frame.pc \in {"fractionReturn", "reduce"} -> 6
    [] frame.pc = "simplifyRoot" /\ frame.part = "num" -> 5
    [] frame.pc = "simplifyRoot" /\ frame.part = "den" -> 4
    [] frame.pc \in {"strings", "fallback"} -> 3
    [] frame.pc = "returned" -> 0

\* what is left of the loop or of the recursion a statement belongs to
Remaining(frame) ==
  CASE frame.pc = "fraction" -> FractionLimit + 1 - frame.q
    [] frame.pc = "radical" -> RadicalLimit + 1 - frame.q
    [] frame.pc = "gcd" -> frame.b
    [] frame.pc = "simplifyRoot" -> frame.i
    [] OTHER -> 0

\* C17: formatSmart terminates and returns a string for every argument, the
\* ones that reach the decimal fallback included.  Every step either moves
\* on in the control flow or stays in its loop (over q in 2..50, over q in
\* 1..100, over simplifyRoot's i) or in the recursion of gcd with strictly
\* less left to do, and what is left is never negative: no run is infinite.
\* A step is defined at every statement but the returns, and a return hands
\* back a string that is not empty.
C17_Terminates ==
  [][/\ Remaining(fs') >= 0
     /\ \/ Phase(fs') < Phase(fs)
        \/ Phase(fs') = Phase(fs) /\ Remaining(fs') < Remaining(fs)
     /\ fs'.pc \in {"fraction", "radical", "gcd", "fractionReturn", "reduce",
                    "simplifyRoot", "strings", "fallback", "returned"}
     /\ fs'.pc = "returned" => (fs'.ret # "-" /\ Len(fs'.ret) > 0)]_vars

\* NaN went through both loops and was returned by the fallback
C17_Witness == Returned /\ arg = NaN /\ fs.rung = "fallback" /\ fs.ret = "NaN"

\* the strings that denote zero
ZeroStrings == {"0", Surd \o "0", "-" \o Surd \o "0", "0.0000", "-0.0000"}

\* C22: for every argument v with |v| >= 1e-5 the string returned denotes a
\* non-zero number: the radical rung never accepts p = 0, so it never yields
\* the root of 0 with or without a sign, and a value that is no integer, no
\* fraction and no radical with a non-zero numerator is rendered by the
\* 4-decimal fallback.
C22_NeverRootOfZero ==
  (Returned /\ arg.kind # "nan" /\ ~BelowTolerance(arg)) =>
    /\ fs.ret \notin ZeroStrings
    /\ fs.rung = "radical" => fs.pInt # 0

(***************************************************************************)
(* analyzeSurface on coefficients that are not finite.  The linear         *)
(* coefficients and the constant do not reach the eigensolver, which is    *)
(* given a finite symmetric matrix; the solver may also throw, and nothing *)
(* in analyzeSurface catches that.                                         *)
(***************************************************************************)
NonFinite == {NotANumber, PlusInfinity, MinusInfinity}

CoefficientNames == {"a11", "a22", "a33", "a12", "a23", "a13", "b1", "b2", "b3", "c"}

FaultInputs ==
  {[k EXCEPT ![f] = x] : k \in Scenarios, f \in {"b1", "b2", "b3", "c"}, x \in NonFinite}

FaultInit ==
  /\ coeffs \in FaultInputs
  /\ pc = "ready"
  /\ an = NoAnalysis
  /\ arg = Idle /\ fs = Idle /\ app = Idle /\ ni = Idle

\* math.eigs throws and the exception leaves analyzeSurface
SolverFails ==
  /\ pc = "ready"
  /\ pc' = "error"
  /\ UNCHANGED <<coeffs, an, besideAnalysis>>

FaultNext == Analyze \/ SolverFails

FaultSpec == FaultInit /\ [][FaultNext]_vars

\* C18: when one of the ten coefficients is NaN or infinite, or the
\* eigensolver fails, analyzeSurface ends in an error and returns no
\* AnalysisResult: no surfaceType, standardForm or translationVector is
\* computed from a value that is not finite.
C18_NonFiniteRejected ==
  (pc # "ready" /\ \E f \in CoefficientNames : ~IsFinite(coeffs[f])) =>
    (pc = "error" /\ an = NoAnalysis)

(***************************************************************************)
(* App: the coefficients, the debounce effect and the result it shows.     *)
(* Time advances by the millisecond.  A change of coeffs re-renders App,   *)
(* which runs the cleanup of the previous effect and then the effect; the  *)
(* result kept here is the part of the AnalysisResult the classifier       *)
(* decides.                                                                *)
(***************************************************************************)
Debounce == 100

MaxChanges == 2

ChangeKeys == {"a33", "c"}

ChangeValues == {Rat(-1), Zero, Rat(1)}

null == [surfaceType |-> "null"]

\* the cleanup left out
ClearTimeoutNone(timers, id) == timers

\* clearTimeout(timer)
ClearTimeout(timers, id) == {t \in timers : t.id # id}

\* setTimeout(..., 100) in a render with the coefficients k
SetTimeout(timers, id, k) == timers \cup {[id |-> id, coeffs |-> k, age |-> 0]}

AppInit ==
  /\ coeffs = InitialCoefficients
  /\ \E math \in BOOLEAN :
       app = [timers |-> SetTimeout({}, 0, InitialCoefficients),
              result |-> null,
              math |-> math,
              changes |-> 0,
              sinceChange |-> 0,
              calls |-> <<>>]
  /\ pc = "idle" /\ an = Idle
  /\ arg = Idle /\ fs = Idle /\ ni = Idle

\* handleCoeffChange(key, value), the render it causes and the effect: the
\* timer of the previous render is cleared and a new one is set
HandleCoeffChange ==
  /\ app.changes < MaxChanges
  /\ \E key \in ChangeKeys, value \in ChangeValues :
       /\ coeffs' = [coeffs EXCEPT ![key] = value]
       /\ app' = [app EXCEPT
                    !.timers = SetTimeout(ClearTimeout(@, app.changes),
                                          app.changes + 1,
                                          [coeffs EXCEPT ![key] = value]),
                    !.changes = @ + 1,
                    !.sinceChange = 0]
  /\ UNCHANGED <<pc, an, formatVars, ni>>

\* a millisecond passes
Tick ==
  /\ app.sinceChange < Debounce
  /\ app' = [app EXCEPT
               !.timers = {[t EXCEPT !.age = IF @ < Debounce THEN @ + 1 ELSE @] : t \in @},
               !.sinceChange = @ + 1]
  /\ UNCHANGED <<analysisVars, formatVars, ni>>

Due == {t \in app.timers : t.age >= Debounce}

\* what setResult can receive from analyzeSurface(coeffs): one result for
\* each answer the solver can give
Results(k) == {Classified(k, ans) : ans \in eigs(MatrixA(k))}

\* the callback of a timer: analyzeSurface returns and the result is set
TimerReturns ==
  /\ app.math
  /\ \E t \in Due :
       \E res \in Results(t.coeffs) :
         app' = [app EXCEPT !.timers = @ \ {t},
                            !.calls = Append(@, t.coeffs),
                            !.result = res]
  /\ UNCHANGED <<analysisVars, formatVars, ni>>

\* the callback of a timer: analyzeSurface throws and the error is logged
TimerThrows ==
  /\ app.math
  /\ \E t \in Due :
       app' = [app EXCEPT !.timers = @ \ {t}, !.calls = Append(@, t.coeffs)]
  /\ UNCHANGED <<analysisVars, formatVars, ni>>

\* the callback of a timer while window.math is not there
TimerWithoutMath ==
  /\ ~app.math
  /\ \E t \in Due : app' = [app EXCEPT !.timers = @ \ {t}]
  /\ UNCHANGED <<analysisVars, formatVars, ni>>

\* the script of the math library arrives
MathLoads ==
  /\ ~app.math
  /\ app' = [app EXCEPT !.math = TRUE]
  /\ UNCHANGED <<analysisVars, formatVars, ni>>

AppNext ==
  \/ HandleCoeffChange
  \/ Tick
  \/ TimerReturns
  \/ TimerThrows
  \/ TimerWithoutMath
  \/ MathLoads

AppSpec == AppInit /\ [][AppNext]_vars

(***************************************************************************)
(* Properties of App.                                                      *)
(***************************************************************************)
\* C19: after any sequence of coefficient changes at most one analysis timer
\* is pending, and it is the timer of the current coefficients; a change made
\* less than 100 ms after the previous one finds that one's timer pending and
\* cancels it; analyzeSurface is only called with the coefficients of the
\* most recent change; and a result set by a timer is the result of that one
\* coefficient tuple.
C19_Debounce ==
  [][/\ Cardinality(app'.timers) <= 1
     /\ \A t \in app'.timers : t.coeffs = coeffs'
     /\ (app'.changes # app.changes /\ app.sinceChange < Debounce) =>
          (app.timers # {} /\ app.timers \cap app'.timers = {})
     /\ Len(app'.calls) > Len(app.calls) =>
          (app'.calls[Len(app'.calls)] = coeffs /\ coeffs' = coeffs)
     /\ app'.result # app.result =>
          app'.result \in Results(coeffs)]_vars

\* two changes were made, and the only call of analyzeSurface was the one
\* for the coefficients of the last change
C19_Witness ==
  /\ app.changes = 2
  /\ app.timers = {}
  /\ app.calls = <<coeffs>>
  /\ app.result # null
  /\ coeffs # InitialCoefficients

\* C20: once the debounce timer of the current coefficients has fired, the
\* result shown is the classification of the current coefficients, or no
\* result is shown: after a throw of analyzeSurface, or without the math
\* library, a result of earlier coefficients is not shown for the current
\* ones.
C20_NoStaleResult ==
  app.timers = {} =>
    \/ app.result = null
    \/ app.result \in Results(coeffs)

(***************************************************************************)
(* NumberInput: the text field of one coefficient.  value is the prop the  *)
(* parent passes (coeffs[key]), localValue the text shown.  A number is a   *)
(* signed decimal num / 10^scale, so that -0 and 0 are two numbers, or NaN. *)
(***************************************************************************)
MaxText == 2

\* the keys typed in the model: a sign, digits, the point and a letter
Chars == {"-", "0", "5", ".", "a"}

Decimal(neg, num, scale) == [kind |-> "num", neg |-> neg, num |-> num, scale |-> scale]

NotNumber == [kind |-> "nan"]

isNaN(x) == x.kind = "nan"

Pow10[n \in Nat] == IF n = 0 THEN 1 ELSE 10 * Pow10[n - 1]

\* a double has one form for each value: 5.0 is 5
RECURSIVE Normal(_, _, _)
Normal(neg, num, scale) ==
  IF scale > 0 /\ num % 10 = 0
  THEN Normal(neg, num \div 10, scale - 1)
  ELSE Decimal(neg, num, scale)

\* x === y: NaN equals nothing, -0 equals 0
StrictEquals(x, y) ==
  /\ ~isNaN(x) /\ ~isNaN(y)
  /\ x.num = y.num /\ x.scale = y.scale
  /\ (x.neg = y.neg \/ x.num = 0)

\* Object.is, by which React compares the dependencies of an effect
ObjectIs(x, y) == x = y

CharAt(s, i) == SubSeq(s, i, i)

DigitChars == <<"0", "1", "2", "3", "4", "5", "6", "7", "8", "9">>

IsDigit(c) == \E d \in 1 .. 10 : DigitChars[d] = c

DigitValue(c) == (CHOOSE d \in 1 .. 10 : DigitChars[d] = c) - 1

\* the first position from i on that holds no blank
RECURSIVE SkipBlanks(_, _)
SkipBlanks(s, i) ==
  IF i <= Len(s) /\ CharAt(s, i) = " " THEN SkipBlanks(s, i + 1) ELSE i

\* the first position from i on that holds no digit
RECURSIVE ScanDigits(_, _)
ScanDigits(s, i) ==
  IF i <= Len(s) /\ IsDigit(CharAt(s, i)) THEN ScanDigits(s, i + 1) ELSE i

\* the number written by the digits at positions i .. j - 1
RECURSIVE DigitsValue(_, _, _)
DigitsValue(s, i, j) ==
  IF j <= i THEN 0 ELSE 10 * DigitsValue(s, i, j - 1) + DigitValue(CharAt(s, j - 1))

\* parseFloat: blanks, a sign, digits, a point and digits; the longest such
\* prefix is read, and NaN is returned when it holds no digit
parseFloat(s) ==
  LET start == SkipBlanks(s, 1)
      signed == start <= Len(s) /\ CharAt(s, start) \in {"-", "+"}
      neg == signed /\ CharAt(s, start) = "-"
      whole == IF signed THEN start + 1 ELSE start
      point == ScanDigits(s, whole)
      dotted == point <= Len(s) /\ CharAt(s, point) = "."
      end == IF dotted THEN ScanDigits(s, point + 1) ELSE point
      scale == IF dotted THEN end - (point + 1) ELSE 0
  IN  IF (point - whole) + scale = 0
      THEN NotNumber
      ELSE Normal(neg,
                  DigitsValue(s, whole, point) * Pow10[scale]
                    + (IF dotted THEN DigitsValue(s, point + 1, end) ELSE 0),
                  scale)

RECURSIVE ZeroPadded(_, _)
ZeroPadded(str, width) ==
  IF Len(str) >= width THEN str ELSE ZeroPadded("0" \o str, width)

\* Number.prototype.toString: -0 is written "0"
toString(x) ==
  IF isNaN(x) THEN "NaN"
  ELSE (IF x.neg /\ x.num # 0 THEN "-" ELSE "")
         \o ToString(x.num \div Pow10[x.scale])
         \o (IF x.scale = 0 THEN ""
             ELSE "." \o ZeroPadded(ToString(x.num % Pow10[x.scale]), x.scale))

RECURSIVE Strings(_)
Strings(n) ==
  IF n = 0 THEN {""}
  ELSE LET shorter == Strings(n - 1)
       IN  shorter \cup {str \o c : str \in shorter, c \in Chars}

\* longer texts: blanks, a sign before the point, digits after a zero, a
\* second point, a second sign
TextSamples ==
  {" ", " 5", "5 ", "-.5", "0.5", "5.0", "-5a", "5.5.5", "--5", "+5", "-0.0", "abc", "5-5", "0.05"}

Texts == Strings(MaxText) \cup TextSamples

\* no event yet
NoEvent == [op |-> "none", text |-> "", before |-> NotNumber, passed |-> <<>>]

\* the values the ten fields start with (INITIAL_COEFFICIENTS)
InitialValues == {Decimal(FALSE, 1, 0), Decimal(TRUE, 1, 0), Decimal(FALSE, 0, 0)}

\* useState(value.toString())
InputInit ==
  /\ \E value \in InitialValues :
       ni = [pc |-> "input", value |-> value, localValue |-> toString(value),
             event |-> NoEvent]
  /\ coeffs = Idle /\ pc = "idle" /\ an = Idle
  /\ arg = Idle /\ fs = Idle /\ app = Idle

\* every edit is passed on
PassedUnfiltered(inputVal, parsed) == <<parsed>>

\* the arguments of the calls of onChange in handleChange
Passed(inputVal, parsed) ==
  IF ~isNaN(parsed) THEN <<parsed>>
  ELSE IF inputVal = "" THEN <<Decimal(FALSE, 0, 0)>>
  ELSE <<>>

\* the effect that follows a render with the text localValue: it runs when
\* value is another number than at the render before
Sync(localValue, before, value) ==
  IF ~ObjectIs(before, value)
       /\ ~StrictEquals(parseFloat(localValue), value) /\ ~isNaN(value)
  THEN toString(value)
  ELSE localValue

\* handleChange, the parent's setCoeffs and the render that follows
HandleChange ==
  /\ ni.pc = "input"
  /\ \E inputVal \in Texts :
       LET passed == Passed(inputVal, parseFloat(inputVal))
           value == IF passed = <<>> THEN ni.value ELSE passed[Len(passed)]
       IN  ni' = [ni EXCEPT
                    !.value = value,
                    !.localValue = Sync(inputVal, ni.value, value),
                    !.event = [op |-> "change", text |-> inputVal,
                               before |-> ni.value, passed |-> passed]]
  /\ UNCHANGED <<analysisVars, formatVars, app>>

\* handleBlur, the parent's setCoeffs and the render that follows
HandleBlur ==
  /\ ni.pc = "input"
  /\ LET invalid == \/ ni.localValue = "-"
                    \/ ni.localValue = ""
                    \/ isNaN(parseFloat(ni.localValue))
         passed == IF invalid THEN <<ni.value>> ELSE <<>>
         shown == IF invalid THEN toString(ni.value) ELSE ni.localValue
     IN  ni' = [ni EXCEPT
                  !.localValue = Sync(shown, ni.value, ni.value),
                  !.event = [op |-> "blur", text |-> ni.localValue,
                             before |-> ni.value, passed |-> passed]]
  /\ UNCHANGED <<analysisVars, formatVars, app>>

InputNext == HandleChange \/ HandleBlur

InputSpec == InputInit /\ [][InputNext]_vars

(***************************************************************************)
(* Properties of NumberInput.                                              *)
(***************************************************************************)
\* C21: for every sequence of edits and blurs, an edit whose text is empty
\* sets the coefficient to 0; an edit whose text is not numeric (parseFloat
\* gives NaN, as for "-" or a letter) leaves the coefficient unchanged; no
\* edit and no blur passes NaN to onChange; and after a blur on an empty or
\* non-numeric text the text shown is the string of the current coefficient.
C21_NumberInput ==
  ni.pc = "input" =>
    LET e == ni.event
        numeric == ~isNaN(parseFloat(e.text))
    IN  /\ (e.op = "change" /\ e.text = "") =>
             (e.passed = <<Decimal(FALSE, 0, 0)>> /\ ni.value = Decimal(FALSE, 0, 0))
        /\ (e.op = "change" /\ e.text # "" /\ ~numeric) =>
             (e.passed = <<>> /\ ni.value = e.before)
        /\ \A i \in 1 .. Len(e.passed) : ~isNaN(e.passed[i])
        /\ ~isNaN(ni.value)
        /\ (e.op = "blur" /\ ~numeric) =>
             (ni.localValue = toString(ni.value) /\ ni.value = e.before)

\* a blur on the text "-" typed over the coefficient -5
C21_Witness ==
  /\ ni.pc = "input"
  /\ ni.event.op = "blur" /\ ni.event.text = "-"
  /\ ni.value = Decimal(TRUE, 5, 0) /\ ni.localValue = "-5"

====
